---- MODULE Spec2Model ----
(***************************************************************************)
(* Media storage of PilotDirector: per-identity directories under videos/, *)
(* uploads (api/upload), listing (api/user-files), fetch (api/video) and   *)
(* the anonymous-to-authorized folder migration (lib/folder-migration.ts). *)
(* Every await of a handler is one step, so handlers interleave the way    *)
(* the Node.js event loop interleaves them.                                *)
(***************************************************************************)
EXTENDS Integers, Sequences, FiniteSets, TLC

VARIABLES fs, mig, up, ls

vars == <<fs, mig, up, ls>>

\* ---------------------------------------------------------------- bounds
Ids == {"a", "b", "c"}
Procs == {"m1", "m2"}
MaxCounter == 2
MaxStem == 3

\* ------------------------------------------------------------ file names
\* A stored name is <stem parts joined by "_"> "." <ext>; F and G stand for
\* two `${timestamp}_${safeName}` strings produced by uploads.
F == [stem |-> <<"f">>, ext |-> "mp4"]
G == [stem |-> <<"g">>, ext |-> "png"]
BaseNames == {F, G}
NoName == [stem |-> <<>>, ext |-> ""]
None == "none"

\* a numbering of the suffixes that starts at 0
SuffixedFromZero(n, counter) == [stem |-> Append(n.stem, counter - 1), ext |-> n.ext]

\* `${name}_${counter}${ext}` with { name, ext } = path.parse(filename)
Suffixed(n, counter) == [stem |-> Append(n.stem, counter), ext |-> n.ext]

\* ------------------------------------------------------------ file system
Absent == [kind |-> "absent", files |-> {}, subs |-> {}, target |-> None]
EmptyDir == [kind |-> "dir", files |-> {}, subs |-> {}, target |-> None]
Symlink(t) == [kind |-> "link", files |-> {}, subs |-> {}, target |-> t]
Entry(n, d) == [name |-> n, data |-> d]
Blob(i, s) == [id |-> i, size |-> s]

NamesOf(files) == {e.name : e \in files}
DataOf(files, n) == (CHOOSE e \in files : e.name = n).data
Put(files, n, d) == {e \in files : e.name # n} \cup {Entry(n, d)}
Del(files, n) == {e \in files : e.name # n}

\* Path resolution of videos/<id>/... : the kernel follows the symlinks.
RECURSIVE Follow(_, _, _)
Follow(f, id, fuel) ==
  IF f[id].kind = "dir" THEN id
  ELSE IF f[id].kind = "link" /\ fuel > 0 THEN Follow(f, f[id].target, fuel - 1)
  ELSE None

RealDir(f, id) == Follow(f, id, Cardinality(Ids))

FilesIn(f, id) == IF RealDir(f, id) = None THEN {} ELSE f[RealDir(f, id)].files

\* existsSync / fs.access of videos/<id>/<name>
Exists(f, id, n) == n \in NamesOf(FilesIn(f, id))

\* mkdir(videos/<id>, { recursive: true }): TRUE when it does not throw
MkdirOk(f, id) == f[id].kind = "absent" \/ RealDir(f, id) # None

\* a mkdir that puts a new empty directory at the path whatever is there
MkdirpFresh(f, id) == [f EXCEPT ![id] = EmptyDir]

\* the storage after mkdir(videos/<id>, { recursive: true })
Mkdirp(f, id) == IF f[id].kind = "absent" THEN [f EXCEPT ![id] = EmptyDir] ELSE f

\* getUniqueFilename(targetDir, filename) over the names of targetDir
RECURSIVE NextFree(_, _, _)
NextFree(names, n, counter) ==
  IF Suffixed(n, counter) \in names THEN NextFree(names, n, counter + 1)
  ELSE Suffixed(n, counter)

GetUniqueFilename(names, n) == IF n \in names THEN NextFree(names, n, 1) ELSE n

\* ------------------------------------------------------- process records
\* One record per invocation of migrateAnonymousToAuthorized.  pc is the await
\* the invocation is suspended at; todo, cur, cand, counter and moved are the
\* locals files, file.name, newFilename, counter and filesMoved.  live, preA,
\* preB and upIdle record what the invocation found when it was called:
\* whether A was a directory, the files of A and of B, and whether the upload
\* had not been requested yet.
IdleMig == [pc |-> "idle", old |-> None, new |-> None, todo |-> {},
            cur |-> NoName, cand |-> NoName, counter |-> 0, moved |-> 0,
            live |-> FALSE, preA |-> {}, preB |-> {}, upIdle |-> TRUE,
            ok |-> FALSE, count |-> 0, io |-> FALSE]

\* The invocation of the upload handler.  userDir, name and status are the
\* locals userDir and filename and the HTTP status of the response; type and
\* data are file.type and the bytes of the posted file.  uid and nested say
\* which directory of the storage userDir is: videos/<uid> or videos/<uid>/sub.
IdleUp == [pc |-> "idle", uid |-> None, nested |-> FALSE, userDir |-> <<>>,
           type |-> "", name |-> NoName, data |-> Blob(0, 0), ok |-> FALSE,
           status |-> 0]

MigRunning == {"mkdir", "readdir", "access", "rename", "readdir2", "rmdir", "symlink"}

Running(p) == mig[p].pc \in MigRunning
NoneRunning == (\A p \in Procs : ~Running(p)) /\ up.pc # "write"

\* return { success, message, filesMoved } (lines 43, 74-78, 81-85)
Return(p, m, ok, count, io) ==
  mig' = [mig EXCEPT ![p] = [m EXCEPT !.pc = "done", !.ok = ok, !.count = count,
                                       !.io = io, !.todo = {}, !.cur = NoName,
                                       !.cand = NoName, !.counter = 0]]

\* catch (error): success false, filesMoved 0
Throw(p) == Return(p, mig[p], FALSE, 0, FALSE)

\* head of `for (const file of files)`: the next file in readdir order (any
\* order), or the end of the loop
LoopHead(p, m) ==
  IF m.todo = {}
  THEN mig' = [mig EXCEPT ![p] = [m EXCEPT !.pc = "readdir2", !.cur = NoName,
                                          !.cand = NoName, !.counter = 0]]
  ELSE \E n \in m.todo :
         mig' = [mig EXCEPT ![p] = [m EXCEPT !.pc = "access", !.cur = n,
                                            !.cand = n, !.counter = 0]]

\* ------------------------------------------------------------- migration
\* an lstat result that never reports a symbolic link
IsSymbolicLinkNever(f, id) == FALSE

\* stats.isSymbolicLink() of fs.lstat(anonymousPath)
IsSymbolicLink(f, id) == f[id].kind = "link"

\* an lstat that finds something at every path
LstatAlways(f, id) == TRUE

\* fs.lstat(anonymousPath) rejects with ENOENT when nothing is at the path
LstatOk(f, id) == f[id].kind # "absent"

\* migrateAnonymousToAuthorized(A, B) up to the result of fs.lstat
MigLstat(p, A, B) ==
  /\ mig[p].pc = "idle"
  /\ LET m == [IdleMig EXCEPT !.old = A, !.new = B, 
                               !.upIdle = (up.pc = "idle")] IN
       IF ~LstatOk(fs, A) THEN Return(p, m, FALSE, 0, FALSE)
       ELSE IF IsSymbolicLink(fs, A) THEN Return(p, m, TRUE, 0, FALSE)
       ELSE mig' = [mig EXCEPT ![p] = [m EXCEPT !.pc = "mkdir", !.live = TRUE,
                                               !.preA = fs[A].files,
                                               !.preB = FilesIn(fs, B)]]
  /\ UNCHANGED <<fs, up, ls>>

\* await fs.mkdir(authorizedPath, { recursive: true })
MigMkdir(p) ==
  /\ mig[p].pc = "mkdir"
  /\ IF MkdirOk(fs, mig[p].new)
     THEN /\ fs' = Mkdirp(fs, mig[p].new)
          /\ mig' = [mig EXCEPT ![p].pc = "readdir"]
     ELSE /\ Throw(p)
          /\ fs' = fs
  /\ UNCHANGED <<up, ls>>

\* items = await fs.readdir(anonymousPath, { withFileTypes: true }); files = regular files
MigReaddir(p) ==
  /\ mig[p].pc = "readdir"
  /\ IF RealDir(fs, mig[p].old) = None
     THEN Throw(p)
     ELSE /\ LoopHead(p, [mig[p] EXCEPT !.todo = NamesOf(FilesIn(fs, mig[p].old))])
  /\ UNCHANGED <<fs, up, ls>>

\* one fs.access of getUniqueFilename(authorizedPath, file.name)
MigAccess(p) ==
  /\ mig[p].pc = "access"
  /\ IF Exists(fs, mig[p].new, mig[p].cand)
     THEN /\ mig[p].counter < MaxCounter
          /\ Len(mig[p].cur.stem) < MaxStem
          /\ mig' = [mig EXCEPT ![p].counter = @ + 1,
                                ![p].cand = Suffixed(mig[p].cur, mig[p].counter + 1)]
     ELSE mig' = [mig EXCEPT ![p].pc = "rename"]
  /\ UNCHANGED <<fs, up, ls>>

\* the storage after rename(videos/A/n, videos/B/t); overwrites an existing t
Renamed(f, A, n, B, t) ==
  LET S == RealDir(f, A)
      T == RealDir(f, B)
      d == DataOf(f[S].files, n)
      g == [f EXCEPT ![S].files = Del(@, n)]
  IN IF S = T /\ n = t THEN f ELSE [g EXCEPT ![T].files = Put(@, t, d)]

RenameOk(f, A, n, B) == Exists(f, A, n) /\ RealDir(f, B) # None

\* await fs.rename(sourcePath, targetPath); filesMoved++
MigRename(p) ==
  /\ mig[p].pc = "rename"
  /\ LET m == mig[p] IN
       IF RenameOk(fs, m.old, m.cur, m.new)
       THEN /\ fs' = Renamed(fs, m.old, m.cur, m.new, m.cand)
            /\ LoopHead(p, [m EXCEPT !.moved = @ + 1, !.todo = @ \ {m.cur}])
       ELSE /\ Throw(p)
            /\ fs' = fs
  /\ UNCHANGED <<up, ls>>

\* remainingItems = await fs.readdir(anonymousPath)
MigReaddir2(p) ==
  /\ mig[p].pc = "readdir2"
  /\ LET D == RealDir(fs, mig[p].old) IN
       IF D = None THEN Throw(p)
       ELSE /\ mig' = [mig EXCEPT ![p].pc =
                         IF fs[D].files = {} /\ fs[D].subs = {} THEN "rmdir" ELSE "symlink"]
  /\ UNCHANGED <<fs, up, ls>>

\* rmdir(2) succeeds on an empty directory only (not on a symlink)
RmdirOk(f, id) == f[id].kind = "dir" /\ f[id].files = {} /\ f[id].subs = {}

\* await fs.rmdir(anonymousPath)
MigRmdir(p) ==
  /\ mig[p].pc = "rmdir"
  /\ IF RmdirOk(fs, mig[p].old)
     THEN /\ fs' = [fs EXCEPT ![mig[p].old] = Absent]
          /\ mig' = [mig EXCEPT ![p].pc = "symlink"]
     ELSE /\ Throw(p)
          /\ fs' = fs
  /\ UNCHANGED <<up, ls>>

\* a symlink call that replaces whatever is at the link path
SymlinkForce(f, id) == TRUE

\* symlink(2) fails with EEXIST when the link path exists
SymlinkOk(f, id) == f[id].kind = "absent"

\* the arguments of fs.symlink swapped
LinkTargetSwapped(A, B) == A

\* fs.symlink(authorizedUid, anonymousPath): the marker's target is the new identity
LinkTarget(A, B) == B

\* await fs.symlink(authorizedUid, anonymousPath); return success
MigSymlink(p) ==
  /\ mig[p].pc = "symlink"
  /\ IF SymlinkOk(fs, mig[p].old)
     THEN /\ fs' = [fs EXCEPT ![mig[p].old] = Symlink(LinkTarget(mig[p].old, mig[p].new))]
          /\ Return(p, mig[p], TRUE, mig[p].moved, FALSE)
     ELSE /\ Throw(p)
          /\ fs' = fs
  /\ UNCHANGED <<up, ls>>

\* the pending fs call of the invocation rejects (EIO, ENOSPC, EACCES ...)
MigIOFail(p) ==
  /\ Running(p)
  /\ Return(p, mig[p], FALSE, 0, TRUE)
  /\ UNCHANGED <<fs, up, ls>>

\* ----------------------------------------------------------------- upload
\* mkdir -p videos/<uid>/sub
MkdirpNested(f, uid) ==
  IF f[uid].kind = "absent" THEN [f EXCEPT ![uid] = [EmptyDir EXCEPT !.subs = {"sub"}]]
  ELSE IF RealDir(f, uid) # None THEN [f EXCEPT ![RealDir(f, uid)].subs = {"sub"}]
  ELSE f

\* ensureUserDirectory(userId): mkdir -p, every error swallowed.  The header
\* value is used as a path: the identity `<uid>/sub` (nested) makes a
\* subdirectory in the directory of uid.
EnsureUserDirectory(f, uid, nested) ==
  IF nested THEN MkdirpNested(f, uid) ELSE Mkdirp(f, uid)

\* The header x-user-id as the sequence of its components between "/";
\* Missing is the header that is absent or empty.
Missing == <<>>

\* getUserId(request) throws 'User ID required' on a missing or empty header
HasUserId(h) == h # Missing

\* process.cwd() and the storage root join(process.cwd(), 'videos')
Cwd == <<"srv">>
StorageRoot == Append(Cwd, "videos")

\* path.normalize of an absolute path: "" and "." are dropped, ".." drops the
\* component before it (and nothing at "/")
RECURSIVE Normalize(_, _)
Normalize(done, rest) ==
  IF rest = <<>> THEN done
  ELSE IF Head(rest) \in {"", "."} THEN Normalize(done, Tail(rest))
  ELSE IF Head(rest) = ".."
       THEN Normalize(IF done = <<>> THEN <<>> ELSE SubSeq(done, 1, Len(done) - 1),
                      Tail(rest))
  ELSE Normalize(Append(done, Head(rest)), Tail(rest))

\* userDir = join(process.cwd(), 'videos', userId)
UserDir(h) == Normalize(<<>>, StorageRoot \o h)

\* the path lies in the storage root; Rel is the path from the root
InRoot(path) ==
  /\ Len(path) >= Len(StorageRoot)
  /\ SubSeq(path, 1, Len(StorageRoot)) = StorageRoot
Rel(path) == SubSeq(path, Len(StorageRoot) + 1, Len(path))

\* allowedTypes
AllowedTypes ==
  {"video/mp4", "video/avi", "video/mov", "video/mkv", "video/wmv", "video/webm",
   "video/quicktime", "image/png", "image/jpeg", "image/jpg", "image/gif",
   "image/bmp", "image/tiff", "image/webp"}

\* a handler without the check of file.type
ValidatedAny(type) == TRUE

\* allowedTypes.includes(file.type)
Validated(type) == type \in AllowedTypes

\* POST up to the end of ensureUserDirectory.  Without a user id the catch
\* answers 500 at once.  A directory outside videos/ (the parent of the
\* storage root and above) exists and is no part of fs.
UpEnsure(h, type, n, d) ==
  /\ up.pc = "idle"
  /\ IF ~HasUserId(h)
     THEN /\ fs' = fs
          /\ up' = [IdleUp EXCEPT !.pc = "done", !.status = 500]
     ELSE LET dir == UserDir(h)
              uid == IF InRoot(dir) THEN Rel(dir)[1] ELSE None
              nested == InRoot(dir) /\ Len(Rel(dir)) = 2
          IN /\ fs' = IF InRoot(dir) THEN EnsureUserDirectory(fs, uid, nested) ELSE fs
             /\ up' = [IdleUp EXCEPT !.pc = "write", !.uid = uid, !.nested = nested,
                                     !.userDir = dir, !.type = type, !.name = n,
                                     !.data = d]
  /\ UNCHANGED <<mig, ls>>

\* writeFile(filePath) creates or truncates the file; ENOENT without its directory
WriteOk(f, uid, nested) ==
  /\ RealDir(f, uid) # None
  /\ nested => "sub" \in f[RealDir(f, uid)].subs

\* a writeFile that stores nothing
WrittenNowhere(f, uid, nested, n, d) == f

\* the files of videos/<uid>/sub are not part of the model
Written(f, uid, nested, n, d) ==
  IF nested THEN f ELSE [f EXCEPT ![RealDir(f, uid)].files = Put(@, n, d)]

\* POST after ensureUserDirectory: 400 on a type that is not allowed, else
\* await writeFile(join(userDir, filename), buffer) and the JSON with
\* filename and size (or 500 from the catch)
UpWrite ==
  /\ up.pc = "write"
  /\ IF ~Validated(up.type)
     THEN /\ fs' = fs
          /\ up' = [up EXCEPT !.pc = "done", !.status = 400]
     ELSE IF ~InRoot(up.userDir)
     THEN /\ fs' = fs
          /\ up' = [up EXCEPT !.pc = "done", !.ok = TRUE, !.status = 200]
     ELSE IF WriteOk(fs, up.uid, up.nested)
     THEN /\ fs' = Written(fs, up.uid, up.nested, up.name, up.data)
          /\ up' = [up EXCEPT !.pc = "done", !.ok = TRUE, !.status = 200]
     ELSE /\ fs' = fs
          /\ up' = [up EXCEPT !.pc = "done", !.status = 500]
  /\ UNCHANGED <<mig, ls>>

\* ------------------------------------------------------------------ fetch
\* a legacy file in the storage root videos/ (listed by GET /api/files)
RootFiles == {Entry(G, Blob(0, 1))}

VideoExts == {"mp4", "avi", "mov", "mkv", "wmv", "flv"}
ContentType(ext) ==
  IF ext \in VideoExts THEN "video/mp4"
  ELSE IF ext = "png" THEN "image/png"
  ELSE IF ext \in {"jpg", "jpeg"} THEN "image/jpeg"
  ELSE IF ext = "gif" THEN "image/gif"
  ELSE "application/octet-stream"

NoRange == [start |-> -1, end |-> -1]
OpenEnd == -1
Ranges == {NoRange} \cup [start : 0 .. 1, end : {OpenEnd} \cup (0 .. 2)]

NotFound == [status |-> 404, ctype |-> "", clen |-> 0, crange |-> <<>>, body |-> <<>>]
\* the outer catch: 'Internal Server Error'
ServerError == [status |-> 500, ctype |-> "", clen |-> 0, crange |-> <<>>, body |-> <<>>]

\* the response for the file d stored under the name n
Serve(n, d, range) ==
  IF range # NoRange /\ ContentType(n.ext) = "video/mp4"
  THEN LET start == range.start
           end == IF range.end = OpenEnd THEN d.size - 1 ELSE range.end
       IN \* createReadStream(filePath, { start, end }) throws when start > end
          IF start > end THEN ServerError
          ELSE [status |-> 206, ctype |-> ContentType(n.ext), clen |-> (end - start) + 1,
                crange |-> <<start, end, d.size>>, body |-> <<d.id, start, end>>]
  ELSE [status |-> 200, ctype |-> ContentType(n.ext), clen |-> d.size,
        crange |-> <<>>, body |-> <<d.id, 0, d.size - 1>>]

\* GET /api/video/<filename> with the header x-user-id: uid
Fetch(f, uid, n, range) ==
  LET userFiles == FilesIn(f, uid) IN
    IF n \in NamesOf(userFiles) THEN Serve(n, DataOf(userFiles, n), range)
    ELSE IF n \in NamesOf(RootFiles) THEN Serve(n, DataOf(RootFiles, n), range)
    ELSE NotFound

\* findFileInUserDirectories(filename): the entries of videos/ that are
\* directories (a symlink is none) and hold the file; the handler takes the
\* first one in the order readdirSync lists them
UserDirsWith(f, n) == {id \in Ids : f[id].kind = "dir" /\ n \in NamesOf(f[id].files)}

\* GET /api/video/<filename> without the header x-user-id: the responses the
\* handler can give, one for every order of the listing
FetchNoUser(f, n, range) ==
  IF UserDirsWith(f, n) # {}
  THEN {Serve(n, DataOf(f[id].files, n), range) : id \in UserDirsWith(f, n)}
  ELSE IF n \in NamesOf(RootFiles) THEN {Serve(n, DataOf(RootFiles, n), range)}
  ELSE {NotFound}

\* ------------------------------------------------------------------- list
\* videoExtensions and imageExtensions (without the dot)
VideoExtensions ==
  {"mp4", "avi", "mov", "mkv", "wmv", "flv", "webm", "m4v", "3gp", "ogv", "ts",
   "mts", "m2ts", "vob", "asf", "rm", "rmvb", "divx", "xvid", "f4v", "mpg", "mpeg",
   "m1v", "m2v", "mpe", "mpv", "mp2", "mxf"}
ImageExtensions ==
  {"png", "jpg", "jpeg", "gif", "bmp", "tiff", "tif", "webp", "svg", "ico", "psd",
   "raw", "cr2", "nef", "arw", "dng", "orf", "rw2", "pef", "srw", "x3f"}

\* extensions.some(ext => file.toLowerCase().endsWith(ext)): the names of the
\* model are lower case and end with "." and their ext
IsVideo(n) == n.ext \in VideoExtensions
IsImage(n) == n.ext \in ImageExtensions

\* What `ffprobe -show_format -show_streams` gives for a file.  ok is FALSE
\* when exec rejects or JSON.parse throws; rate is the r_frame_rate "num/den"
\* of the video stream as <<num, den>>, <<>> when the field is absent;
\* duration is format.duration in seconds; frames is the nb_frames the
\* stream reports, 0 when it reports none.
ProbeFailed == [ok |-> FALSE, rate |-> <<>>, duration |-> 0, frames |-> 0,
                width |-> 0, height |-> 0]
Probed(rate, duration, frames) ==
  [ok |-> TRUE, rate |-> rate, duration |-> duration, frames |-> frames,
   width |-> 640, height |-> 480]
Rates == {<<>>, <<30000, 1001>>, <<25, 0>>, <<24, 1>>}
VideoProbes == {Probed(r, 10, k) : r \in Rates, k \in {0, 299}} \cup {Probed(r, 0, 0) : r \in Rates}
ImageProbes == {Probed(<<>>, 0, 0)}
ProbeOutcomes == {ProbeFailed} \cup VideoProbes \cup ImageProbes

\* Math.round(a / b) for a >= 0, b > 0
Round(a, b) == (2 * a + b) \div (2 * b)

\* fps in hundredths: 30 by default, else Math.round((num / den) * 100) / 100
Fps(rate) ==
  IF rate # <<>> /\ rate[2] > 0 THEN Round(rate[1] * 100, rate[2]) ELSE 3000

\* frameCount = Math.round(duration * fps)
FrameCount(duration, rate) == Round(duration * Fps(rate), 100)

\* The record of a file; fields are the keys the JSON object has, a key
\* that it does not have is 0 here.  modified (the mtime) is the write that
\* made the content.
BaseFields == {"name", "type", "size", "modified"}
VideoFields == {"duration", "width", "height", "fps", "frameCount"}
ImageFields == {"width", "height"}
Base(n, d) ==
  [name |-> n, type |-> IF IsVideo(n) THEN "video" ELSE "image", size |-> d.size,
   modified |-> d.id, fields |-> BaseFields, duration |-> 0, width |-> 0,
   height |-> 0, fps |-> 0, frameCount |-> 0]

\* a handler that gives up the file when the probe fails
MetadataOrNothing(m, probe) ==
  IF ~probe.ok THEN [m EXCEPT !.fields = {}]
  ELSE IF m.type = "video"
  THEN [m EXCEPT !.fields = @ \cup VideoFields, !.duration = probe.duration,
                 !.width = probe.width, !.height = probe.height,
                 !.fps = Fps(probe.rate),
                 !.frameCount = FrameCount(probe.duration, probe.rate)]
  ELSE [m EXCEPT !.fields = @ \cup ImageFields, !.width = probe.width,
                 !.height = probe.height]

\* metadata after the inner try: the base record when exec or JSON.parse
\* threw, else the base record with the fields of its kind
Metadata(m, probe) ==
  IF ~probe.ok THEN m
  ELSE IF m.type = "video"
  THEN [m EXCEPT !.fields = @ \cup VideoFields, !.duration = probe.duration,
                 !.width = probe.width, !.height = probe.height,
                 !.fps = Fps(probe.rate),
                 !.frameCount = FrameCount(probe.duration, probe.rate)]
  ELSE [m EXCEPT !.fields = @ \cup ImageFields, !.width = probe.width,
                 !.height = probe.height]

\* One record per invocation of GET /api/user-files.  task[i] is the promise
\* of files.map for the i-th name readdir gave: st is the await it stands at
\* ("null" and "done" when it has resolved to null or to meta), probe is what
\* ffprobe gave it.  files is validFiles of the response.
Lists == {"l1", "l2"}
NoMeta == Base(NoName, Blob(0, 0))
Task(n) == [st |-> "stat", name |-> n, meta |-> NoMeta, probe |-> ProbeFailed,
            probed |-> FALSE]
IdleLs == [pc |-> "idle", uid |-> None, task |-> <<>>, files |-> <<>>, status |-> 0]

\* the orders in which readdir can give the names
Perms(S) == {o \in [1 .. Cardinality(S) -> S] : \A i, j \in DOMAIN o : o[i] = o[j] => i = j}

\* catch (error): 500 'Failed to list files'
LsFail(l) == ls' = [ls EXCEPT ![l] = [IdleLs EXCEPT !.pc = "done", !.uid = ls[l].uid,
                                                    !.status = 500]]

\* GET up to the end of ensureUserDirectory
LsEnsure(l, h) ==
  /\ ls[l].pc = "idle"
  /\ IF ~HasUserId(h)
     THEN /\ fs' = fs
          /\ LsFail(l)
     ELSE LET uid == Rel(UserDir(h))[1] IN
          /\ fs' = EnsureUserDirectory(fs, uid, FALSE)
          /\ ls' = [ls EXCEPT ![l] = [IdleLs EXCEPT !.pc = "readdir", !.uid = uid]]
  /\ UNCHANGED <<mig, up>>

\* files = await readdir(userDir), in any order; files.map starts a task for
\* every name
LsReaddir(l) ==
  /\ ls[l].pc = "readdir"
  /\ IF RealDir(fs, ls[l].uid) = None
     THEN LsFail(l)
     ELSE \E order \in Perms(NamesOf(FilesIn(fs, ls[l].uid))) :
            ls' = [ls EXCEPT ![l].pc = "files",
                             ![l].task = [i \in DOMAIN order |-> Task(order[i])]]
  /\ UNCHANGED <<fs, mig, up>>

\* fileStat = await stat(filePath); null for a name that is neither video
\* nor image, and from the outer catch when stat rejects
LsStat(l, i) ==
  /\ ls[l].pc = "files"
  /\ i \in DOMAIN ls[l].task
  /\ ls[l].task[i].st = "stat"
  /\ LET n == ls[l].task[i].name IN
       IF ~Exists(fs, ls[l].uid, n) \/ (~IsVideo(n) /\ ~IsImage(n))
       THEN ls' = [ls EXCEPT ![l].task[i].st = "null"]
       ELSE ls' = [ls EXCEPT ![l].task[i].st = "probe",
                             ![l].task[i].meta = Base(n, DataOf(FilesIn(fs, ls[l].uid), n))]
  /\ UNCHANGED <<fs, mig, up>>

\* await execAsync(`ffprobe ...`) and the rest of the task
LsProbe(l, i, probe) ==
  /\ ls[l].pc = "files"
  /\ i \in DOMAIN ls[l].task
  /\ ls[l].task[i].st = "probe"
  /\ probe \in (IF ls[l].task[i].meta.type = "video" THEN VideoProbes ELSE ImageProbes)
               \cup {ProbeFailed}
  /\ ls' = [ls EXCEPT ![l].task[i].st = "done",
                      ![l].task[i].probe = probe,
                      ![l].task[i].probed = TRUE,
                      ![l].task[i].meta = Metadata(@, probe)]
  /\ UNCHANGED <<fs, mig, up>>

\* results.filter(file => file !== null), in the order of files
RECURSIVE ValidFiles(_)
ValidFiles(task) ==
  IF task = <<>> THEN <<>>
  ELSE IF Head(task).st = "done" THEN <<Head(task).meta>> \o ValidFiles(Tail(task))
  ELSE ValidFiles(Tail(task))

\* results = await Promise.all(filePromises); return the JSON
LsReturn(l) ==
  /\ ls[l].pc = "files"
  /\ \A i \in DOMAIN ls[l].task : ls[l].task[i].st \in {"done", "null"}
  /\ ls' = [ls EXCEPT ![l].pc = "done", ![l].status = 200,
                      ![l].files = ValidFiles(ls[l].task)]
  /\ UNCHANGED <<fs, mig, up>>

\* ------------------------------------------------------------ specification
\* the storage after an upload of anonymous a and, possibly, one of b
InitFs ==
  {[a |-> [EmptyDir EXCEPT !.files = {Entry(F, Blob(1, 2))}], b |-> B, c |-> Absent] :
     B \in {Absent, [EmptyDir EXCEPT !.files = {Entry(F, Blob(3, 2))}]}}

\* the payload of the upload in flight
Uploaded == Blob(4, 2)

\* file.type as the browser declares it for the posted name
TypeOf(n) == IF n.ext = "mp4" THEN "video/mp4" ELSE "image/png"

\* a header whose directory is the parent of the storage root
Escapes == {<<"..">>}

\* the invocations are interchangeable: m2 is the one called second
InOrder(p) == p = "m2" => mig["m1"].pc # "idle"

Init ==
  /\ fs \in InitFs
  /\ mig = [p \in Procs |-> IdleMig]
  /\ up = IdleUp
  /\ ls = [l \in Lists |-> IdleLs]

Next ==
  \/ \E p \in Procs, A \in Ids, B \in Ids : InOrder(p) /\ MigLstat(p, A, B)
  \/ \E p \in Procs : MigMkdir(p)
  \/ \E p \in Procs : MigReaddir(p)
  \/ \E p \in Procs : MigAccess(p)
  \/ \E p \in Procs : MigRename(p)
  \/ \E p \in Procs : MigReaddir2(p)
  \/ \E p \in Procs : MigRmdir(p)
  \/ \E p \in Procs : MigSymlink(p)
  \/ \E p \in Procs : MigIOFail(p)
  \/ \E uid \in Ids, n \in BaseNames : UpEnsure(<<uid>>, TypeOf(n), n, Uploaded)
  \/ \E uid \in Ids : UpEnsure(<<uid, "sub">>, TypeOf(F), F, Uploaded)
  \/ \E uid \in Ids : UpEnsure(<<uid>>, "text/plain", F, Uploaded)
  \/ \E h \in Escapes \cup {Missing} : UpEnsure(h, TypeOf(F), F, Uploaded)
  \/ UpWrite

Spec == Init /\ [][Next]_vars

TypeOK ==
  /\ \A id \in Ids : fs[id].kind \in {"absent", "dir", "link"}
  /\ \A p \in Procs : mig[p].pc \in MigRunning \cup {"idle", "done"}

\* a name that is neither video nor image for the listing
X == [stem |-> <<"x">>, ext |-> "txt"]

\* the lists are interchangeable and called one after the other
InOrderLs(l) == l = "l2" => ls["l1"].pc = "done"

\* Listing beside uploads to one identity: two lists, one after the other,
\* and an upload at any time.
NextList ==
  \/ \E l \in Lists, uid \in Ids : InOrderLs(l) /\ LsEnsure(l, <<uid>>)
  \/ \E l \in Lists : InOrderLs(l) /\ LsEnsure(l, Missing)
  \/ \E l \in Lists : LsReaddir(l)
  \/ \E l \in Lists, i \in 1 .. Cardinality(BaseNames \cup {X}) : LsStat(l, i)
  \/ \E l \in Lists, i \in 1 .. Cardinality(BaseNames \cup {X}), probe \in ProbeOutcomes :
       LsProbe(l, i, probe)
  \/ \E l \in Lists : LsReturn(l)
  \/ \E n \in BaseNames : UpEnsure(<<"a">>, TypeOf(n), n, Uploaded)
  \/ UpEnsure(<<"a">>, "video/mp4", X, Uploaded)
  \/ UpWrite

SpecList == Init /\ [][NextList]_vars

\* One call at a time: a handler is entered only when no other is suspended.
NextSeq ==
  \/ \E p \in Procs, A \in Ids, B \in Ids : NoneRunning /\ InOrder(p) /\ MigLstat(p, A, B)
  \/ \E p \in Procs : MigMkdir(p)
  \/ \E p \in Procs : MigReaddir(p)
  \/ \E p \in Procs : MigAccess(p)
  \/ \E p \in Procs : MigRename(p)
  \/ \E p \in Procs : MigReaddir2(p)
  \/ \E p \in Procs : MigRmdir(p)
  \/ \E p \in Procs : MigSymlink(p)
  \/ \E p \in Procs : MigIOFail(p)
  \/ \E uid \in Ids, n \in BaseNames : NoneRunning /\ UpEnsure(<<uid>>, TypeOf(n), n, Uploaded)
  \/ \E uid \in Ids : NoneRunning /\ UpEnsure(<<uid, "sub">>, TypeOf(F), F, Uploaded)
  \/ \E uid \in Ids : NoneRunning /\ UpEnsure(<<uid>>, "text/plain", F, Uploaded)
  \/ \E h \in Escapes \cup {Missing} : NoneRunning /\ UpEnsure(h, TypeOf(F), F, Uploaded)
  \/ UpWrite

SpecSeq == Init /\ [][NextSeq]_vars

\* ------------------------------------------------------------- properties
M1 == mig["m1"]
M2 == mig["m2"]
Done(p) == mig[p].pc = "done"

\* nothing was called after invocation p returned (under SpecSeq)
Fresh(p) ==
  /\ Done(p)
  /\ up.pc = "idle" \/ (up.pc = "done" /\ ~mig[p].upIdle)
  /\ p = "m1" => M2.pc = "idle"

\* m2 was called right after m1 returned, with the same arguments (under SpecSeq)
Twice ==
  /\ Done("m1") /\ Fresh("m2")
  /\ M1.old = M2.old /\ M1.new = M2.new
  /\ M1.upIdle = M2.upIdle

\* the places of the storage that hold the content d
Copies(f, d) == {c \in Ids \X {e.name : e \in UNION {f[id].files : id \in Ids}} :
                   Entry(c[2], d) \in f[c[1]].files}
HoldsAll(files, pre) == \A e \in pre : \E x \in files : x.data = e.data

\* C1: two migrate(A, B) in succession on a live A that holds a regular
\* file: the first succeeds with movedCount > 0, the second with movedCount = 0.
C1_TwiceInSuccession ==
  (Twice /\ M1.live /\ M1.preA # {} /\ ~M1.io /\ ~M2.io)
    => (M1.ok /\ M1.count > 0 /\ M2.ok /\ M2.count = 0)

\* C2 as stated: after any migrate(A, B) that returned success, every name
\* in B's directory fetches the same through identity A as through B.
C2_FetchSameAfterSuccess ==
  \A p \in Procs : (Done(p) /\ mig[p].ok) =>
    \A n \in NamesOf(FilesIn(fs, mig[p].new)), r \in Ranges :
      Fetch(fs, mig[p].old, n, r) = Fetch(fs, mig[p].new, n, r)

\* C2 (amended): after a migrate(A, B) that found A a live directory and
\* returned success, every name in B's directory fetches the same (status,
\* headers, bytes) through identity A as through identity B.
C2_FetchFollowsRedirect ==
  \A p \in Procs : (Done(p) /\ mig[p].ok /\ mig[p].live) =>
    \A n \in NamesOf(FilesIn(fs, mig[p].new)), r \in Ranges :
      Fetch(fs, mig[p].old, n, r) = Fetch(fs, mig[p].new, n, r)

C2_Witness ==
  \E p \in Procs :
    /\ Done(p) /\ mig[p].ok /\ mig[p].live /\ mig[p].count > 0
    /\ \E e \in FilesIn(fs, mig[p].new) :
         /\ e \in mig[p].preA \/ e.data \in {x.data : x \in mig[p].preA}
         /\ Fetch(fs, mig[p].old, e.name, NoRange).status = 200

\* C3: while migrations run, and after they returned or aborted, every file
\* that was in A's directory when its migration started is stored exactly
\* once (not lost, not duplicated); stated for runs without any upload.
C3_NoLossNoDuplicate ==
  up.pc = "idle" =>
    \A p \in Procs : mig[p].live =>
      \A e \in mig[p].preA : Cardinality(Copies(fs, e.data)) = 1

\* C4: a migrate(A, B), A # B, that ran on a live A without an I/O failure
\* leaves A a redirect marker to B, all files of A in B's directory and the
\* files B had unchanged.
C4_EndState ==
  \A p \in Procs :
    (Fresh(p) /\ mig[p].live /\ ~mig[p].io /\ mig[p].old # mig[p].new) =>
      /\ fs[mig[p].old] = Symlink(mig[p].new)
      /\ HoldsAll(FilesIn(fs, mig[p].new), mig[p].preA)
      /\ mig[p].preB \subseteq FilesIn(fs, mig[p].new)

\* C5: whenever no call is in progress, after migrations between distinct
\* identities none of which failed on I/O, the target of every redirect marker
\* is a live directory.
C5_NoChain ==
  (NoneRunning /\ \A p \in Procs : ~mig[p].io /\ (Done(p) => mig[p].old # mig[p].new)) =>
    \A id \in Ids : fs[id].kind = "link" => fs[fs[id].target].kind = "dir"

\* C6: once an identity's path is a redirect marker, no step of any upload
\* or migration changes that path: it stays a marker with the same target.
C6_RedirectTerminal ==
  [][\A id \in Ids : fs[id].kind = "link" => fs'[id] = fs[id]]_vars

\* a marker that a later migrate and a later upload have been called on
C6_Witness ==
  \E id \in Ids :
    /\ fs[id].kind = "link"
    /\ \E p \in Procs : Done(p) /\ mig[p].old = id /\ ~mig[p].live /\ mig[p].ok
    /\ up.pc = "done" /\ up.uid = id /\ up.ok

\* C7: two interleaved migrate(A, B), A # B, on the same live A, with no
\* I/O failure and no upload: A ends redirected to B, and B's directory holds
\* what one migration produces (its own files untouched, A's file under the
\* name getUniqueFilename gives it).
C7_RedundantMigration ==
  (/\ Done("m1") /\ Done("m2") /\ up.pc = "idle"
   /\ M1.old = M2.old /\ M1.new = M2.new /\ M1.old # M1.new
   /\ M1.live /\ M2.live /\ ~M1.io /\ ~M2.io
   /\ Cardinality(M1.preA) = 1)
    => /\ fs[M1.old] = Symlink(M1.new)
       /\ FilesIn(fs, M1.new) =
            M1.preB \cup {Entry(GetUniqueFilename(NamesOf(M1.preB), e.name), e.data) :
                            e \in M1.preA}

\* C8: an upload to A interleaved with migrate(A, B), A # B, on a live A,
\* nothing else called and no I/O failure: both report success, A ends
\* redirected to B and the uploaded file is in B's directory, as in either
\* serial order.
C8_UploadSerializes ==
  (/\ Done("m1") /\ M2.pc = "idle" /\ up.pc = "done" /\ Validated(up.type)
   /\ ~up.nested /\ up.uid = M1.old /\ M1.old # M1.new
   /\ M1.live /\ ~M1.io)
    => /\ M1.ok /\ up.ok
       /\ fs[M1.old] = Symlink(M1.new)
       /\ \E e \in FilesIn(fs, M1.new) : e.data = up.data

\* C9: a migrate that aborted on an I/O failure after k renames reports k.
C9_PartialCount ==
  \A p \in Procs : (Done(p) /\ mig[p].io) => mig[p].count = mig[p].moved

\* C10: migrate(A, B), A # B, fails on I/O; migrate(A, B) called again right
\* after, without an I/O failure, returns success, and A is redirected to B
\* with all of A's files in B's directory.
C10_Resumable ==
  (Twice /\ M1.old # M1.new /\ M1.live /\ M1.io /\ ~M2.io)
    => /\ M2.ok
       /\ fs[M1.old] = Symlink(M1.new)
       /\ HoldsAll(FilesIn(fs, M1.new), M1.preA)

\* C11: two migrations into one target directory, no upload: no rename
\* replaces a file that is already stored in the target under the name the
\* migration allocated, whatever the other migration did between the
\* allocation (getUniqueFilename) and the rename.
C11_RaceSafeNames ==
  [][\A p \in Procs :
       (up.pc = "idle" /\ mig[p].pc = "rename" /\ fs' # fs /\ mig'[p] # mig[p]
        /\ mig[p].old # mig[p].new)
         => ~Exists(fs, mig[p].new, mig[p].cand)]_vars

\* C12: the writeFile of a successful upload never replaces a file that is
\* already stored under the same name in the identity's directory (the name
\* is `${timestamp}_${safeName}`: same original name, same millisecond).
C12_UploadNeverOverwrites ==
  [][(up.pc = "write" /\ up'.pc = "done" /\ up'.ok /\ InRoot(up.userDir) /\ ~up.nested)
       => ~Exists(fs, up.uid, up.name)]_vars

\* C13: no upload is answered with success after writing its file in a
\* directory outside the storage root videos/ (only a user id with a ".."
\* component resolves to such a directory).
C13_NoTraversal ==
  (up.pc = "done" /\ up.ok) => InRoot(up.userDir)

\* C14: a fetch without a user id is answered with an error and with the
\* content of no stored file, whatever the storage holds.
C14_NoIdentityFailsFast ==
  \A n \in BaseNames : \A res \in FetchNoUser(fs, n, NoRange) :
    res.status >= 400 /\ res.body = <<>>

\* C15: an upload whose file.type is not in allowedTypes is answered with
\* the client error 400 ('Invalid file type') and its content is stored in no
\* directory, whatever migrations run beside it.
C15_InvalidTypeRejected ==
  (up.pc = "done" /\ up.userDir # <<>> /\ up.type \notin AllowedTypes) =>
    /\ up.status = 400 /\ ~up.ok
    /\ \A id \in Ids : \A e \in fs[id].files : e.data # up.data

\* a rejected upload of text/plain to an identity that has files
C15_Witness ==
  /\ up.pc = "done" /\ up.type = "text/plain" /\ up.status = 400
  /\ up.uid \in Ids /\ FilesIn(fs, up.uid) # {}

\* C16: a fetch with a user id whose directory (after following redirect
\* markers) holds no file of the requested name is answered with 404.
C16_FetchNotFound ==
  \A uid \in Ids, n \in BaseNames :
    ~Exists(fs, uid, n) => Fetch(fs, uid, n, NoRange) = NotFound

\* every migration that was called had returned before the upload was
\* requested (under SpecSeq): nothing ran after the upload
AfterUpload == \A p \in Procs : ~Running(p) /\ (Done(p) => mig[p].upIdle)

\* C17: after a successful upload to videos/<uid> and nothing else since, a
\* fetch of the returned filename with the same user id and no Range header
\* is answered 200 with the uploaded bytes and Content-Length = the uploaded
\* size.
C17_RoundTrip ==
  (up.pc = "done" /\ up.ok /\ InRoot(up.userDir) /\ ~up.nested /\ AfterUpload) =>
    LET res == Fetch(fs, up.uid, up.name, NoRange) IN
      /\ res.status = 200
      /\ res.body = <<up.data.id, 0, up.data.size - 1>>
      /\ res.clen = up.data.size

\* the round trip of an upload to an identity that was migrated before
C17_Witness ==
  /\ up.pc = "done" /\ up.ok /\ InRoot(up.userDir) /\ ~up.nested /\ AfterUpload
  /\ fs[up.uid].kind = "link"
  /\ Fetch(fs, up.uid, up.name, NoRange).status = 200

\* the end of the range r on a file of size S: S - 1 when the header omits it
EndOf(r, S) == IF r.end = OpenEnd THEN S - 1 ELSE r.end

\* C18: for every file in an identity's directory, video or image, of size S
\* and every Range header with 0 <= start <= end < S (end = S - 1 when
\* omitted) the fetch is answered 206 with Content-Range start-end/S and
\* Content-Length end - start + 1.
C18_RangeServed ==
  \A uid \in Ids : \A e \in FilesIn(fs, uid) : \A r \in Ranges \ {NoRange} :
    LET S == e.data.size
        res == Fetch(fs, uid, e.name, r)
    IN (r.start <= EndOf(r, S) /\ EndOf(r, S) < S) =>
         /\ res.status = 206
         /\ res.crange = <<r.start, EndOf(r, S), S>>
         /\ res.clen = (EndOf(r, S) - r.start) + 1

\* C19: for a video file of size S in an identity's directory and a Range
\* header with start < S <= end the fetch is answered 206 with Content-Range
\* start-(S - 1)/S and Content-Length S - start.
C19_RangeClamped ==
  \A uid \in Ids : \A e \in FilesIn(fs, uid) : \A r \in Ranges \ {NoRange} :
    LET S == e.data.size
        res == Fetch(fs, uid, e.name, r)
    IN (e.name.ext \in VideoExts /\ r.end # OpenEnd /\ r.start < S /\ S <= r.end) =>
         /\ res.status = 206
         /\ res.crange = <<r.start, S - 1, S>>
         /\ res.clen = S - r.start

\* C20: for a video file of size S in an identity's directory and a Range
\* header with start >= S or start > end the fetch is answered 416, never
\* 206 or 500.
C20_RangeNotSatisfiable ==
  \A uid \in Ids : \A e \in FilesIn(fs, uid) : \A r \in Ranges \ {NoRange} :
    LET S == e.data.size
        res == Fetch(fs, uid, e.name, r)
    IN (e.name.ext \in VideoExts /\ (r.start >= S \/ r.start > EndOf(r, S))) =>
         res.status = 416

\* C23: a migrate(old, new) called while old's path is a redirect marker
\* returns at once with success and filesMoved = 0, and its step leaves the
\* whole storage as it is, for every new.
C23_MarkerShortCircuit ==
  [][\A p \in Procs :
       (mig[p].pc = "idle" /\ mig'[p].pc # "idle" /\ fs[mig'[p].old].kind = "link")
         => /\ mig'[p].pc = "done" /\ mig'[p].ok /\ mig'[p].count = 0
            /\ fs' = fs]_vars

\* a migrate on a marker towards an identity that has no directory, other
\* than the marker's target: it returned success, the directory is not created
C23_Witness ==
  \E p \in Procs :
    /\ Done(p) /\ ~mig[p].live /\ mig[p].ok /\ mig[p].count = 0
    /\ fs[mig[p].old].kind = "link"
    /\ fs[mig[p].old].target # mig[p].new
    /\ fs[mig[p].new].kind = "absent"

\* C24: with one call at a time, the name getUniqueFilename hands to the
\* rename is free in the target directory; it is the requested name when
\* that one is free, and else <stem>_<k><ext> for the smallest k >= 1 that
\* is free, the suffix standing before the extension.
C24_UniqueName ==
  \A p \in Procs : mig[p].pc = "rename" =>
    LET names == NamesOf(FilesIn(fs, mig[p].new))
        n == mig[p].cur
        r == mig[p].cand
    IN /\ r \notin names
       /\ n \notin names => r = n
       /\ n \in names =>
            \E k \in 1 .. (Cardinality(names) + 1) :
              /\ r = [stem |-> Append(n.stem, k), ext |-> n.ext]
              /\ \A j \in 1 .. (k - 1) :
                   [stem |-> Append(n.stem, j), ext |-> n.ext] \in names
       /\ r = GetUniqueFilename(names, n)

\* an allocation that had to skip <stem>_1<ext>
C24_Witness ==
  \E p \in Procs :
    /\ mig[p].pc = "rename" /\ mig[p].counter = 2
    /\ mig[p].cand = Suffixed(mig[p].cur, 2)

\* C27: ensureUserDirectory of videos/<uid> and of videos/<uid>/sub makes
\* the directory when the path does not exist, keeps the files of a live
\* directory, leaves a redirect marker a marker, and a second call on the
\* result changes nothing.
C27_ResolveIdempotent ==
  \A uid \in Ids, nested \in BOOLEAN :
    LET once == EnsureUserDirectory(fs, uid, nested) IN
      /\ EnsureUserDirectory(once, uid, nested) = once
      /\ fs[uid].kind = "absent" => once[uid].kind = "dir"
      /\ fs[uid].kind = "dir" => once[uid].kind = "dir" /\ once[uid].files = fs[uid].files
      /\ fs[uid].kind = "link" => once[uid] = fs[uid]
      /\ \A id \in Ids : once[id].files = fs[id].files

\* the upload handler has called ensureUserDirectory on a redirect marker
\* whose target holds files
C27_Witness ==
  /\ up.pc = "write" /\ up.uid \in Ids /\ ~up.nested
  /\ fs[up.uid].kind = "link"
  /\ FilesIn(fs, up.uid) # {}

\* C28: a migrate(old, new) called while nothing is at old's path returns
\* at once with failure and filesMoved = 0, and its step leaves the whole
\* storage as it is: no directory for new, no redirect marker.
C28_MissingOld ==
  [][\A p \in Procs :
       (mig[p].pc = "idle" /\ mig'[p].pc # "idle" /\ fs[mig'[p].old].kind = "absent")
         => /\ mig'[p].pc = "done" /\ ~mig'[p].ok /\ mig'[p].count = 0
            /\ fs' = fs]_vars

\* a failed migrate of an identity without directory towards another
\* identity without directory
C28_Witness ==
  \E p \in Procs :
    /\ Done(p) /\ ~mig[p].live /\ ~mig[p].ok /\ ~mig[p].io /\ mig[p].count = 0
    /\ mig[p].old # mig[p].new
    /\ fs[mig[p].old].kind = "absent"
    /\ fs[mig[p].new].kind = "absent"

\* C29: after a migrate(A, A) on a live A, with no I/O failure and nothing
\* called since, A's directory holds the files it held when migrate was
\* called, under the same names; and a migrate that reports filesMoved = 0
\* has renamed no file.
C29_SelfMigration ==
  \A p \in Procs :
    (Fresh(p) /\ mig[p].live /\ ~mig[p].io /\ mig[p].old = mig[p].new) =>
      /\ fs[mig[p].old].files = mig[p].preA
      /\ mig[p].count = 0 => mig[p].moved = 0

\* C30: an upload to A that reported success, interleaved in any way with
\* one migrate(A, B), A # B, that met no I/O failure, nothing else called:
\* once both have returned, a fetch of the returned filename with user id A
\* is answered 200 with the uploaded content.
C30_UploadNotLost ==
  (/\ Done("m1") /\ M2.pc = "idle" /\ ~M1.io /\ M1.old # M1.new
   /\ up.pc = "done" /\ up.ok /\ InRoot(up.userDir) /\ ~up.nested
   /\ up.uid = M1.old)
    => LET res == Fetch(fs, up.uid, up.name, NoRange) IN
         res.status = 200 /\ res.body = <<up.data.id, 0, up.data.size - 1>>

\* what does hold in these runs (checked under Spec): the fetch finds some
\* file of that name
SameNameFound ==
  (/\ Done("m1") /\ M2.pc = "idle" /\ ~M1.io /\ M1.old # M1.new
   /\ up.pc = "done" /\ up.ok /\ InRoot(up.userDir) /\ ~up.nested
   /\ up.uid = M1.old)
    => Fetch(fs, up.uid, up.name, NoRange).status = 200

\* the order of the stored names as strings: by the first part of the stem,
\* then by the suffix numbers ("." sorts before "_", so f.mp4 < f_1.mp4)
Letters == <<"f", "g", "x">>
LetterRank(c) == CHOOSE i \in DOMAIN Letters : Letters[i] = c
RECURSIVE SuffixLess(_, _)
SuffixLess(s, t) ==
  IF t = <<>> THEN FALSE
  ELSE IF s = <<>> THEN TRUE
  ELSE IF Head(s) # Head(t) THEN Head(s) < Head(t)
  ELSE SuffixLess(Tail(s), Tail(t))
NameLess(m, n) ==
  IF Head(m.stem) # Head(n.stem)
  THEN LetterRank(Head(m.stem)) < LetterRank(Head(n.stem))
  ELSE SuffixLess(Tail(m.stem), Tail(n.stem))

\* C21: the records of a successful list are in ascending order of name,
\* whatever order readdir gave the names in.
C21_ListSorted ==
  \A l \in Lists : (ls[l].pc = "done" /\ ls[l].status = 200) =>
    \A i, j \in DOMAIN ls[l].files :
      i < j => NameLess(ls[l].files[i].name, ls[l].files[j].name)

\* what does hold of the records (checked under SpecList): they are the
\* names of the readdir result that end with a video or image extension
ListedAreMedia ==
  \A l \in Lists : (ls[l].pc = "done" /\ ls[l].status = 200) =>
    /\ \A i \in DOMAIN ls[l].files :
         IsVideo(ls[l].files[i].name) \/ IsImage(ls[l].files[i].name)
    /\ \A i \in DOMAIN ls[l].task :
         ls[l].task[i].st = "done" \/ ~Exists(fs, ls[l].uid, ls[l].task[i].name)
           \/ ls[l].task[i].name = X

\* the tasks of list l that ran ffprobe and got a failure
FailedProbes(l) == {i \in DOMAIN ls[l].task : ls[l].task[i].probed /\ ~ls[l].task[i].probe.ok}

\* C22: a list in which ffprobe failed on some files is answered 200; every
\* such file has a record with exactly the keys name, type, size and
\* modified, and every other media file has its record with the media keys
\* of its kind, as many records as media files.
C22_ProbeResilience ==
  \A l \in Lists : (ls[l].pc = "done" /\ FailedProbes(l) # {}) =>
    /\ ls[l].status = 200
    /\ Len(ls[l].files) = Cardinality({i \in DOMAIN ls[l].task : ls[l].task[i].probed})
    /\ \A i \in DOMAIN ls[l].task : ls[l].task[i].probed =>
         \E j \in DOMAIN ls[l].files :
           LET t == ls[l].task[i]
               r == ls[l].files[j]
           IN /\ r.name = t.name
              /\ r.type = (IF IsVideo(t.name) THEN "video" ELSE "image")
              /\ \E e \in {Entry(F, Blob(1, 2)), Entry(F, Blob(3, 2))}
                       \cup {Entry(n, Uploaded) : n \in BaseNames} :
                   e.name = r.name /\ r.size = e.data.size /\ r.modified = e.data.id
              /\ r.fields = IF ~t.probe.ok THEN BaseFields
                            ELSE IF r.type = "video" THEN BaseFields \cup VideoFields
                            ELSE BaseFields \cup ImageFields

\* a list of a video and an image: ffprobe failed on one and not on the other
C22_Witness ==
  \E l \in Lists :
    /\ ls[l].pc = "done" /\ Len(ls[l].files) = 2
    /\ \E i, j \in DOMAIN ls[l].task :
         /\ ls[l].task[i].probed /\ ~ls[l].task[i].probe.ok
         /\ ls[l].task[j].probed /\ ls[l].task[j].probe.ok
         /\ ls[l].task[j].meta.fields # BaseFields

\* C25: two lists of one identity, one after the other: a file whose record
\* in the first list has no media key and whose size and mtime are the same
\* in the second list has no media key there either, and the second list
\* has not run ffprobe on it.
C25_ProbeOnce ==
  (ls["l1"].pc = "done" /\ ls["l2"].pc = "done" /\ ls["l1"].uid = ls["l2"].uid) =>
    \A i \in DOMAIN ls["l1"].task, j \in DOMAIN ls["l2"].task :
      LET t == ls["l1"].task[i]
          u == ls["l2"].task[j]
      IN (/\ t.st = "done" /\ u.st = "done" /\ t.name = u.name
          /\ t.meta.fields = BaseFields
          /\ t.meta.size = u.meta.size /\ t.meta.modified = u.meta.modified)
           => u.meta.fields = BaseFields /\ ~u.probed

\* C26: in the record of a video that ffprobe described, frameCount is the
\* nb_frames of the stream when it reports one, and round(duration * fps)
\* otherwise, fps being 30 when r_frame_rate is absent or has denominator 0.
C26_FrameCount ==
  \A l \in Lists : \A i \in DOMAIN ls[l].task :
    LET t == ls[l].task[i] IN
      (t.st = "done" /\ t.meta.type = "video" /\ t.probe.ok) =>
        /\ (t.probe.rate = <<>> \/ t.probe.rate[2] = 0) => t.meta.fps = 3000
        /\ t.meta.frameCount = IF t.probe.frames > 0 THEN t.probe.frames
                               ELSE Round(t.probe.duration * t.meta.fps, 100)

====
